---- MODULE Spec2Model ----
(***************************************************************************)
(* Model of src/server.py: the /api/analyze request handler (analyze_url), *)
(* the page scraper (extract_possible_titles), the scorer                  *)
(* (process_with_ner) and the /health endpoint.                            *)
(*                                                                         *)
(* Python strings are modelled as sequences of one-character strings so    *)
(* that strip(), lower(), startswith(), substring tests, the "NN%"         *)
(* formatting and its parsing in the sort key are computed, not assumed.   *)
(* One behaviour of the model is one request to /api/analyze (plus         *)
(* /health probes); the handler is cut at its blocking calls: it waits in  *)
(* requests.get (line 27) and in every ner_pipeline(text) (line 81), and   *)
(* the code between two waits is one step.                                 *)
(***************************************************************************)
EXTENDS Integers, Sequences, FiniteSets, TLC

VARIABLES
    ner_pipeline,   \* module global, lines 14-21: "pipeline" or "None"
    pc,             \* position of the handler: "idle", "fetching" (in requests.get),
                    \* "scoring" (at the loop head), "oracle" (in ner_pipeline), "done"
    data,           \* analyze_url: data, the parsed request body (line 104), or NoBody
    fetch,          \* what requests.get did for this request (line 27) and whether
                    \* the parsing of its response raised (lines 33-46), or NoFetch
    titles,         \* analyze_url: titles (line 128)
    unique_titles,  \* analyze_url: unique_titles (lines 150-155)
    idx,            \* process_with_ner: position of the for loop (line 76), 1-based
    results,        \* process_with_ner: results (line 74), then sorted in place (line 161)
    entities,       \* process_with_ner: entities, the oracle's last answer (line 81)
    oracle_calls,   \* the texts ner_pipeline was invoked with, in order (line 81)
    error_log,      \* the texts logged by the except branch (line 95)
    response,       \* the (payload, status) pair the handler returned, or NoResponse
    health          \* the payload of the last GET /health, or NoResponse

vars == << ner_pipeline, pc, data, fetch, titles, unique_titles, idx, results,
           entities, oracle_calls, error_log, response, health >>

---------------------------------------------------------------------------
(* Bounds of the model *)

\* longest document, in elements
MaxElems == 3

\* longest oracle answer, in findings
MaxFindings == 2

---------------------------------------------------------------------------
(* Python string primitives *)

Whitespace == {" ", "\n"}

UpperChars == << "A", "B", "E", "I", "L", "M", "N", "T" >>

LowerChars == << "a", "b", "e", "i", "l", "m", "n", "t" >>

\* str.lower() on one character
LowerChar(c) ==
    IF \E i \in 1..Len(UpperChars) : UpperChars[i] = c
    THEN LowerChars[CHOOSE i \in 1..Len(UpperChars) : UpperChars[i] = c]
    ELSE c

\* str.lower()
Lower(s) == [i \in 1..Len(s) |-> LowerChar(s[i])]

\* str.strip(): drop leading and trailing whitespace
Strip(s) ==
    LET keep == {i \in 1..Len(s) : s[i] \notin Whitespace}
    IN  IF keep = {} THEN << >>
        ELSE LET lo == CHOOSE i \in keep : \A j \in keep : i <= j
                 hi == CHOOSE i \in keep : \A j \in keep : i >= j
             IN  SubSeq(s, lo, hi)

\* str.startswith(prefix)
StartsWith(s, prefix) ==
    /\ Len(s) >= Len(prefix)
    /\ SubSeq(s, 1, Len(prefix)) = prefix

\* sub in s
Contains(s, sub) ==
    \E i \in 1..(Len(s) - Len(sub) + 1) : SubSeq(s, i, i + Len(sub) - 1) = sub

\* s.replace(ch, "") for a one-character ch
RemoveChar(s, ch) == SelectSeq(s, LAMBDA c : c # ch)

DigitChars == << "0", "1", "2", "3", "4", "5", "6", "7", "8", "9" >>

\* str(n) for n >= 0
RECURSIVE IntToStr(_)
IntToStr(n) ==
    IF n < 10 THEN << DigitChars[n + 1] >>
    ELSE IntToStr(n \div 10) \o << DigitChars[(n % 10) + 1] >>

DigitValue(c) == (CHOOSE i \in 1..Len(DigitChars) : DigitChars[i] = c) - 1

\* int(s) for a string of decimal digits
RECURSIVE StrToInt(_)
StrToInt(s) ==
    IF Len(s) = 0 THEN 0
    ELSE 10 * StrToInt(SubSeq(s, 1, Len(s) - 1)) + DigitValue(s[Len(s)])

---------------------------------------------------------------------------
(* The request body as request.get_json() delivers it (line 104) *)

U_http == << "h", "t", "t", "p", ":", "/", "/", "a" >>

U_https == << "h", "t", "t", "p", "s", ":", "/", "/", "a" >>

U_noscheme == << "e", "x", ".", "c", "o", "m" >>

U_ftp == << "f", "t", "p", ":", "/", "/", "a" >>

U_upper == << "H", "T", "T", "P", ":", "/", "/", "a" >>

U_oneslash == << "h", "t", "t", "p", ":", "/", "a" >>

U_empty == << >>

UrlStrings == {U_http, U_https, U_noscheme, U_ftp, U_upper, U_oneslash, U_empty}

\* the value stored under the key "url": a JSON string, null or number
UrlValues ==
    {[type |-> "string", str |-> u] : u \in UrlStrings}
        \cup {[type |-> "null", str |-> << >>], [type |-> "number", str |-> << >>]}

NoUrlValue == [type |-> "absent", str |-> << >>]

\* get_json() either raises (werkzeug BadRequest on an unparsable body) or
\* returns a JSON value: null, an object, or an array of strings
JsonBodies ==
    {[raises |-> TRUE, type |-> "none", keys |-> {}, url |-> NoUrlValue, items |-> << >>]}
        \cup {[raises |-> FALSE, type |-> "null", keys |-> {}, url |-> NoUrlValue, items |-> << >>]}
        \cup {[raises |-> FALSE, type |-> "object", keys |-> k, url |-> NoUrlValue, items |-> << >>] :
                 k \in {{}, {"link"}}}
        \cup {[raises |-> FALSE, type |-> "object", keys |-> {"url"}, url |-> v, items |-> << >>] :
                 v \in UrlValues}
        \cup {[raises |-> FALSE, type |-> "array", keys |-> {}, url |-> NoUrlValue, items |-> i] :
                 i \in {<< >>, << "url" >>}}

NoBody == [raises |-> FALSE, type |-> "none", keys |-> {}, url |-> NoUrlValue, items |-> << >>]

\* Python truthiness of the parsed body: `data` in `not data`
Truthy(body) ==
    CASE body.type = "null"   -> FALSE
      [] body.type = "object" -> body.keys # {}
      [] body.type = "array"  -> body.items # << >>

\* 'url' in data
HasUrlKey(body) ==
    CASE body.type = "object" -> "url" \in body.keys
      [] body.type = "array"  -> \E i \in 1..Len(body.items) : body.items[i] = "url"

\* line 106: not data or 'url' not in data
UrlNotProvided(body) == ~Truthy(body) \/ ~HasUrlKey(body)

\* line 115 raises TypeError when data is not a mapping (list indices must be integers)
SubscriptRaises(body) == body.type # "object"

\* line 117 raises AttributeError when url is not a str
StartsWithRaises(url) == url.type # "string"

SchemeHttp == << "h", "t", "t", "p", ":", "/", "/" >>

SchemeHttps == << "h", "t", "t", "p", "s", ":", "/", "/" >>

\* line 117: url.startswith(('http://', 'https://'))
HasScheme(url) == StartsWith(url.str, SchemeHttp) \/ StartsWith(url.str, SchemeHttps)

---------------------------------------------------------------------------
(* The fetched page: requests.get and the parsed tree (lines 27-46) *)

\* raw text nodes, as they stand in the page
N_ws == << " ", "\n" >>

N_a == << " ", "a", " " >>

N_ab == << "a", "b" >>

N_Ab == << "\n", "A", "b" >>

N_a_b == << "a", " ", "b" >>

N_a_ == << "a", " " >>

N__b == << " ", "b" >>

\* the text nodes below one element, in document order
HeadingContents == {<< N_ws >>, << N_a >>, << N_ab >>, << N_a_b >>, << N_a_, N__b >>}

\* class tokens
K_title == << "T", "i", "t", "l", "e" >>

K_name == << "p", "-", "N", "A", "M", "E", "s" >>

K_nam == << "n", "a", "m" >>

K_x == << "x" >>

\* tag.get("class"): None, a single string, or a list of tokens
ClassNone == [kind |-> "none", tokens |-> << >>]

ClassStr(s) == [kind |-> "str", tokens |-> << s >>]

ClassList(l) == [kind |-> "list", tokens |-> l]

ClassAttrs ==
    {ClassNone, ClassStr(<< >>), ClassStr(K_title),
     ClassList(<< K_x, K_name >>), ClassList(<< K_x, K_nam >>)}

Elements ==
    [tag : {"h1"}, class : {ClassNone}, strings : HeadingContents]
        \cup [tag : {"h2"}, class : {ClassStr(K_title)}, strings : {<< N_ab >>}]
        \cup [tag : {"div"}, class : ClassAttrs, strings : {<< N_Ab >>}]
        \cup [tag : {"p", "span"}, class : {ClassStr(K_title)}, strings : {<< N_ab >>}]

RECURSIVE SeqsUpTo(_, _)
SeqsUpTo(S, n) ==
    IF n = 0 THEN {<< >>}
    ELSE LET shorter == SeqsUpTo(S, n - 1)
         IN  shorter \cup {Append(q, x) : q \in {r \in shorter : Len(r) = n - 1}, x \in S}

\* the elements of a page in document order
Docs == SeqsUpTo(Elements, MaxElems)

\* tag.get_text(strip=True): every text node stripped, the empty ones dropped,
\* the rest joined with no separator
RECURSIVE get_text(_)
get_text(strings) ==
    IF strings = << >> THEN << >>
    ELSE Strip(Head(strings)) \o get_text(Tail(strings))

HintSubstrings == {<< "n", "a", "m", "e" >>, << "t", "i", "t", "l", "e" >>}

\* line 43: cls and any(any(substr in c.lower() ...) for c in (cls if list else [cls]))
ClassHints(cls) ==
    /\ cls.kind # "none"
    /\ IF cls.kind = "str" THEN cls.tokens[1] # << >> ELSE cls.tokens # << >>
    /\ \E i \in 1..Len(cls.tokens) :
           \E substr \in HintSubstrings : Contains(Lower(cls.tokens[i]), substr)

\* lines 36-39: the h1 pass
HeadingTitles(doc) ==
    LET hit(e) == e.tag = "h1" /\ get_text(e.strings) # << >>
        picked == SelectSeq(doc, hit)
    IN  [i \in 1..Len(picked) |-> get_text(picked[i].strings)]

\* lines 41-46: the p/div/span pass
ClassHintTitles(doc) ==
    LET hit(e) == /\ e.tag \in {"p", "div", "span"}
                  /\ ClassHints(e.class)
                  /\ get_text(e.strings) # << >>
        picked == SelectSeq(doc, hit)
    IN  [i \in 1..Len(picked) |-> get_text(picked[i].strings)]

\* what requests.get does: it returns a response or raises
ExceptionKinds ==
    {"SSLError", "ConnectionError", "Timeout", "HTTPError", "RequestException", "Exception"}

\* the outcomes of lines 27-46: requests.get raises; or it returns a response,
\* whose parsing (BeautifulSoup and the two loops, lines 33-46) then delivers
\* the document or raises
FetchOutcomes ==
    {[kind |-> k, status_code |-> 0, parse_raises |-> FALSE, doc |-> << >>] : k \in ExceptionKinds}
        \cup {[kind |-> "response", status_code |-> c, parse_raises |-> FALSE, doc |-> << >>] :
                 c \in {201, 404, 500}}
        \cup {[kind |-> "response", status_code |-> 200, parse_raises |-> TRUE, doc |-> << >>]}
        \cup {[kind |-> "response", status_code |-> 200, parse_raises |-> FALSE, doc |-> d] :
                 d \in Docs}

NoFetch == [kind |-> "none", status_code |-> 0, parse_raised |-> FALSE]

\* variant: only client and server error codes are skipped (status_code >= 400)
StatusSkippedErrorCodesOnly(outcome) == outcome.status_code >= 400

\* lines 29-31: the non-200 early return
StatusSkipped(outcome) == outcome.status_code # 200

\* variant: a page without candidates is reported like a failed fetch
extract_possible_titles_EmptyIsError(outcome) ==
    IF outcome.kind # "response" \/ StatusSkipped(outcome) \/ outcome.parse_raises
    THEN [titles |-> << >>, scraping_error |-> TRUE]
    ELSE LET found == HeadingTitles(outcome.doc) \o ClassHintTitles(outcome.doc)
         IN  [titles |-> found, scraping_error |-> found = << >>]

\* extract_possible_titles, lines 23-67: the pair (candidates, scraping_error);
\* every except branch (lines 50-67) returns ([], True), the last one also for
\* an exception raised after the response arrived
extract_possible_titles(outcome) ==
    IF outcome.kind # "response"
    THEN [titles |-> << >>, scraping_error |-> TRUE]
    ELSE IF StatusSkipped(outcome)
    THEN [titles |-> << >>, scraping_error |-> TRUE]
    ELSE IF outcome.parse_raises
    THEN [titles |-> << >>, scraping_error |-> TRUE]
    ELSE [titles |-> HeadingTitles(outcome.doc) \o ClassHintTitles(outcome.doc),
          scraping_error |-> FALSE]

\* variant: a repeated title moves to the place of its last occurrence
RECURSIVE DedupKeepLast(_)
DedupKeepLast(ts) ==
    IF ts = << >> THEN << >>
    ELSE LET title == Head(ts)
             rest  == DedupKeepLast(Tail(ts))
         IN  IF \E i \in 1..Len(rest) : rest[i] = title
             THEN rest
             ELSE << title >> \o rest

\* lines 150-155: first occurrences, in order
RECURSIVE Dedup(_)
Dedup(ts) ==
    IF ts = << >> THEN << >>
    ELSE LET before == Dedup(SubSeq(ts, 1, Len(ts) - 1))
             title  == ts[Len(ts)]
         IN  IF \E i \in 1..Len(before) : before[i] = title
             THEN before
             ELSE Append(before, title)

---------------------------------------------------------------------------
(* The entity oracle and the scorer (process_with_ner, lines 69-98) *)

Absent == "absent"

\* A score is a Python float (binary64), held exactly: the 53-bit significand
\* m2 * 2^36 + m1 * 2^18 + m0 (three limbs, 2^52 <= significand < 2^53, or 0)
\* over 2^k. The key can also be missing, or hold None.
Limb == 2 ^ 18

Double(m2, m1, m0, k) == [kind |-> "float", m2 |-> m2, m1 |-> m1, m0 |-> m0, k |-> k]

NoScore == [kind |-> "missing", m2 |-> 0, m1 |-> 0, m0 |-> 0, k |-> 0]

NoneScore == [kind |-> "None", m2 |-> 0, m1 |-> 0, m0 |-> 0, k |-> 0]

\* the int 0 that entity.get('score', 0) falls back to
IntZero == [kind |-> "int", m2 |-> 0, m1 |-> 0, m0 |-> 0, k |-> 0]

\* 0.999
D_0999 == Double(130940, 243269, 165675, 53)

\* 0.09999999999999999, the float next below 0.1
D_below_tenth == Double(104857, 157286, 104857, 56)

\* the findings an answer is made of: dicts with these values under the keys
\* 'entity_group', 'entity' and 'score'
Findings ==
    {[entity_group |-> "PRODUCT", entity |-> Absent,    score |-> D_below_tenth],
     [entity_group |-> Absent,    entity |-> "PRODUCT", score |-> NoScore],
     [entity_group |-> "OTHER",   entity |-> Absent,    score |-> D_0999],
     [entity_group |-> "PRODUCT", entity |-> Absent,    score |-> NoneScore]}

\* ner_pipeline(text) raises, or returns a list of findings
OracleAnswers ==
    {[raises |-> TRUE, findings |-> << >>]}
        \cup {[raises |-> FALSE, findings |-> f] : f \in SeqsUpTo(Findings, MaxFindings)}

\* variant: only the empty text is skipped
TooShortEmptyOnly(text) == text = << >>

\* line 77: not text or len(text.strip()) < 2
TooShort(text) == text = << >> \/ Len(Strip(text)) < 2

\* line 84: entity.get('entity_group') == 'PRODUCT' or entity.get('entity') == 'PRODUCT'
IsProduct(entity) == entity.entity_group = "PRODUCT" \/ entity.entity = "PRODUCT"

\* line 85: entity.get('score', 0)
Confidence(entity) == IF entity.score.kind = "missing" THEN IntZero ELSE entity.score

\* line 86: None * 100 raises TypeError
TimesRaises(confidence) == confidence.kind = "None"

\* the exact product 100 * significand, in limbs (the top limb takes the carry)
Times100(x) ==
    LET t0 == 100 * x.m0
        t1 == 100 * x.m1 + (t0 \div Limb)
    IN  [p2 |-> 100 * x.m2 + (t1 \div Limb), p1 |-> t1 % Limb, p0 |-> t0 % Limb]

\* the binary64 product confidence * 100: the exact product rounded to 53
\* significant bits, ties to even; the result is the value over 2^k
RoundedTimes100(x) ==
    LET p    == Times100(x)
        r    == IF p.p2 >= 2 ^ 23 THEN 7 ELSE 6
        rem  == p.p0 % (2 ^ r)
        half == 2 ^ (r - 1)
        odd  == (p.p0 \div (2 ^ r)) % 2 = 1
        up   == rem > half \/ (rem = half /\ odd)
        r0   == p.p0 - rem + (IF up THEN 2 ^ r ELSE 0)
        u1   == p.p1 + (r0 \div Limb)
    IN  [p2 |-> p.p2 + (u1 \div Limb), p1 |-> u1 % Limb, p0 |-> r0 % Limb]

\* int() of a product held in limbs over 2^k, k >= 36
IntegerPart(p, k) == IF k - 36 >= 30 THEN 0 ELSE p.p2 \div (2 ^ (k - 36))

\* line 86: int(confidence * 100)
Percent(confidence) ==
    IF confidence.kind = "int" THEN 0
    ELSE IntegerPart(RoundedTimes100(confidence), confidence.k)

\* line 86: f"{...}%"
FormatProb(confidence) == IntToStr(Percent(confidence)) \o << "%" >>

\* lines 83-84: the first qualifying finding, 0 when there is none
ChosenEntity(ents) ==
    LET hits == {i \in 1..Len(ents) : IsProduct(ents[i])}
    IN  IF hits = {} THEN 0 ELSE CHOOSE i \in hits : \A j \in hits : i <= j

\* lines 83-92 raise: the score of the first qualifying finding is no number
ProcessingRaises(ents) ==
    /\ ChosenEntity(ents) # 0
    /\ TimesRaises(Confidence(ents[ChosenEntity(ents)]))

\* lines 83-92: the first qualifying finding yields the one result, then break
ScoreEntities(text, ents) ==
    IF ChosenEntity(ents) = 0 THEN << >>
    ELSE << [text |-> text, prob |-> FormatProb(Confidence(ents[ChosenEntity(ents)]))] >>

---------------------------------------------------------------------------
(* The ranking (line 161) *)

\* key=lambda x: int(x['prob'].replace('%', ''))
SortKey(x) == StrToInt(RemoveChar(x.prob, "%"))

\* variant: an ascending sort that is then reversed, which reverses the ties
InsertDescTiesReversed(xs, x) ==
    LET n == Cardinality({j \in 1..Len(xs) : SortKey(xs[j]) > SortKey(x)})
    IN  SubSeq(xs, 1, n) \o << x >> \o SubSeq(xs, n + 1, Len(xs))

\* where list.sort(reverse=True) puts x among already sorted xs: after every
\* element whose key is not smaller (the sort is stable)
InsertDesc(xs, x) ==
    LET n == Cardinality({j \in 1..Len(xs) : SortKey(xs[j]) >= SortKey(x)})
    IN  SubSeq(xs, 1, n) \o << x >> \o SubSeq(xs, n + 1, Len(xs))

\* results.sort(key=..., reverse=True)
RECURSIVE SortResults(_)
SortResults(rs) ==
    IF rs = << >> THEN << >>
    ELSE InsertDesc(SortResults(SubSeq(rs, 1, Len(rs) - 1)), rs[Len(rs)])

---------------------------------------------------------------------------
(* Responses *)

NoMessage == "<no message key>"

\* line 112
MsgNoUrl == "URL ne predostavlen"

\* line 123
MsgBadUrl == "Nekorrektnyj URL"

\* line 136
MsgScrapingError == "Oshibka pri izvlechenii dannyh s sajta"

\* line 145
MsgNoTitles == "Ne udalos izvlech nazvaniya s dannoj stranicy"

\* line 179
MsgInternal == "Vnutrennyaya oshibka servera"

NoResponse ==
    [status |-> 0, error |-> FALSE, results |-> << >>, products_identified |-> 0,
     total_titles_found |-> 0, message |-> NoMessage]

\* the payloads with empty results of lines 107-113, 118-124, 131-137, 140-146, 174-180
EmptyPayload(status, error, message) ==
    [status |-> status, error |-> error, results |-> << >>, products_identified |-> 0,
     total_titles_found |-> 0, message |-> message]

\* variant: total_titles_found counts the titles before the deduplication
ResultPayloadCountsTitles(rs, uniq) ==
    [status |-> 200, error |-> FALSE, results |-> rs, products_identified |-> Len(rs),
     total_titles_found |-> Len(titles), message |-> NoMessage]

\* the payload of lines 165-170
ResultPayload(rs, uniq) ==
    [status |-> 200, error |-> FALSE, results |-> rs, products_identified |-> Len(rs),
     total_titles_found |-> Len(uniq), message |-> NoMessage]

NoHealth == [status |-> "none", model_status |-> "none"]

\* variant: the pipeline is taken to be there
LoadedAlways(pipeline) == TRUE

\* the truth value of ner_pipeline in `if not ner_pipeline` (line 71) and in
\* `"loaded" if ner_pipeline else ...` (line 185)
Loaded(pipeline) == pipeline # "None"

\* line 185
ModelStatus(pipeline) == IF Loaded(pipeline) THEN "loaded" ELSE "not_loaded"

---------------------------------------------------------------------------
(* The state machine *)

\* lines 14-21: the model loads, or the except branch leaves ner_pipeline = None
Init ==
    /\ ner_pipeline \in {"pipeline", "None"}
    /\ pc = "idle"
    /\ data = NoBody
    /\ fetch = NoFetch
    /\ titles = << >>
    /\ unique_titles = << >>
    /\ idx = 1
    /\ results = << >>
    /\ entities = << >>
    /\ oracle_calls = << >>
    /\ error_log = << >>
    /\ response = NoResponse
    /\ health = NoHealth

\* return jsonify(...), status
Return(payload) ==
    /\ response' = payload
    /\ pc' = "done"

\* the handler returns before extract_possible_titles is called
ReturnEarly(payload) ==
    /\ Return(payload)
    /\ UNCHANGED << fetch, titles, unique_titles, idx, results >>

\* lines 27-48 and 130-159: requests.get returns or raises, then the two early
\* returns, the deduplication and the entry of process_with_ner (lines 71-74)
FetchAndExtract(outcome) ==
    LET extracted == extract_possible_titles(outcome)
    IN  /\ fetch' = [kind |-> outcome.kind, status_code |-> outcome.status_code,
                     parse_raised |-> outcome.parse_raises]
        /\ titles' = extracted.titles
        /\ IF extracted.scraping_error
           THEN /\ Return(EmptyPayload(200, TRUE, MsgScrapingError))
                /\ UNCHANGED << unique_titles, idx, results >>
           ELSE IF extracted.titles = << >>
           THEN /\ Return(EmptyPayload(200, FALSE, MsgNoTitles))
                /\ UNCHANGED << unique_titles, idx, results >>
           ELSE /\ unique_titles' = Dedup(extracted.titles)
                /\ idx' = 1
                /\ IF ~Loaded(ner_pipeline)
                   THEN /\ results' = SortResults(<< >>)
                        /\ Return(ResultPayload(results', unique_titles'))
                   ELSE /\ results' = << >>
                        /\ pc' = "scoring"
                        /\ UNCHANGED response

\* POST /api/analyze, lines 101-128, and the except branch of lines 172-180: the
\* body is read and validated; a valid request goes on to requests.get (line 27)
\* and waits there
analyze_url ==
    /\ pc = "idle"
    /\ \E body \in JsonBodies :
           /\ data' = body
           /\ IF body.raises
              THEN ReturnEarly(EmptyPayload(500, TRUE, MsgInternal))
              ELSE IF UrlNotProvided(body)
              THEN ReturnEarly(EmptyPayload(400, TRUE, MsgNoUrl))
              ELSE IF SubscriptRaises(body) \/ StartsWithRaises(body.url)
              THEN ReturnEarly(EmptyPayload(500, TRUE, MsgInternal))
              ELSE IF ~HasScheme(body.url)
              THEN ReturnEarly(EmptyPayload(400, TRUE, MsgBadUrl))
              ELSE /\ pc' = "fetching"
                   /\ UNCHANGED << fetch, titles, unique_titles, idx, results, response >>
    /\ UNCHANGED << ner_pipeline, entities, oracle_calls, error_log, health >>

\* requests.get comes back (line 27) and the handler runs on to its return or to
\* the loop of process_with_ner
requests_get_returns ==
    /\ pc = "fetching"
    /\ \E outcome \in FetchOutcomes : FetchAndExtract(outcome)
    /\ UNCHANGED << ner_pipeline, data, entities, oracle_calls, error_log, health >>

\* the head of the for loop, lines 76-81: a short text is passed over, any
\* other text is handed to ner_pipeline, and the handler waits for the answer
process_with_ner ==
    /\ pc = "scoring"
    /\ idx <= Len(unique_titles)
    /\ LET text == unique_titles[idx]
       IN  IF TooShort(text)
           THEN /\ idx' = idx + 1
                /\ UNCHANGED << oracle_calls, pc >>
           ELSE /\ oracle_calls' = Append(oracle_calls, text)
                /\ pc' = "oracle"
                /\ UNCHANGED idx
    /\ UNCHANGED << ner_pipeline, data, fetch, titles, unique_titles, results, entities,
                    error_log, response, health >>

\* variant: without the inner try, the handler's except branch (lines 172-180) answers
ExceptBranchAborts(text) ==
    /\ error_log' = Append(error_log, text)
    /\ Return(EmptyPayload(500, TRUE, MsgInternal))
    /\ UNCHANGED << idx, results >>

\* lines 94-96: the except branch logs the text and goes on with the next one
ExceptBranch(text) ==
    /\ error_log' = Append(error_log, text)
    /\ idx' = idx + 1
    /\ pc' = "scoring"
    /\ UNCHANGED << results, response >>

\* lines 83-92 ran through: at most one result is appended
OracleAnswered(text, findings) ==
    /\ results' = results \o ScoreEntities(text, findings)
    /\ idx' = idx + 1
    /\ pc' = "scoring"
    /\ UNCHANGED << error_log, response >>

\* ner_pipeline(text) comes back, lines 81-96: it raises, and entities keeps its
\* value; or it returns, entities is bound, and lines 83-92 run or raise
ner_pipeline_returns ==
    /\ pc = "oracle"
    /\ LET text == unique_titles[idx]
       IN  \E answer \in OracleAnswers :
               IF answer.raises
               THEN /\ ExceptBranch(text)
                    /\ UNCHANGED entities
               ELSE /\ entities' = answer.findings
                    /\ IF ProcessingRaises(answer.findings)
                       THEN ExceptBranch(text)
                       ELSE OracleAnswered(text, answer.findings)
    /\ UNCHANGED << ner_pipeline, data, fetch, titles, unique_titles, oracle_calls, health >>

\* lines 98 and 161-170: the loop is over, the results are sorted and returned
rank_and_return ==
    /\ pc = "scoring"
    /\ idx > Len(unique_titles)
    /\ results' = SortResults(results)
    /\ Return(ResultPayload(results', unique_titles))
    /\ UNCHANGED << ner_pipeline, data, fetch, titles, unique_titles, idx, entities,
                    oracle_calls, error_log, health >>

\* GET /health, lines 182-189
health_check ==
    /\ health' = [status |-> "ok", model_status |-> ModelStatus(ner_pipeline)]
    /\ UNCHANGED << ner_pipeline, pc, data, fetch, titles, unique_titles, idx, results,
                    entities, oracle_calls, error_log, response >>

Next ==
    \/ analyze_url
    \/ requests_get_returns
    \/ process_with_ner
    \/ ner_pipeline_returns
    \/ rank_and_return
    \/ health_check

Spec == Init /\ [][Next]_vars

---------------------------------------------------------------------------
(* Vocabulary of the properties *)

Range(q) == {q[i] : i \in 1..Len(q)}

\* the handler called requests.get and got no 200 response out of it
FetchFailed == fetch.kind # "none" /\ (fetch.kind # "response" \/ fetch.status_code # 200)

\* the handler called requests.get and got a 200 response
FetchSucceeded == fetch.kind = "response" /\ fetch.status_code = 200

\* the 200 response was parsed and the extraction ran through (lines 33-48)
PageExtracted == FetchSucceeded /\ ~fetch.parse_raised

\* the scraping failed: the fetch failed, or the parsing of a 200 response raised
ScrapingFailed == FetchFailed \/ (FetchSucceeded /\ fetch.parse_raised)

Responded == pc = "done"

\* the body names a url that is a string starting with http:// or https://
WellFormedRequest ==
    /\ ~data.raises
    /\ data.type = "object"
    /\ "url" \in data.keys
    /\ data.url.type = "string"
    /\ \/ StartsWith(data.url.str, SchemeHttp)
       \/ StartsWith(data.url.str, SchemeHttps)

---------------------------------------------------------------------------
(* C1 *)

\* C1 as stated: a request with a well-formed URL whose fetch fails (non-200 status or any
\* exception) is answered 200 with error = true, no results, both counts 0 and a
\* message, and the oracle is never invoked for it; a request whose fetch
\* returned 200 but gave no candidate is answered with error = false and another
\* message; neither message ever appears on the other kind of outcome.
C1_FetchFailureDistinctFromNoTitles ==
    /\ FetchFailed => oracle_calls = << >>
    /\ Responded /\ FetchFailed =>
           /\ response.status = 200
           /\ response.error = TRUE
           /\ response.results = << >>
           /\ response.total_titles_found = 0
           /\ response.products_identified = 0
           /\ response.message = MsgScrapingError
    /\ Responded /\ FetchSucceeded /\ titles = << >> =>
           /\ response.status = 200
           /\ response.error = FALSE
           /\ response.message = MsgNoTitles
    /\ MsgScrapingError # MsgNoTitles
    /\ MsgScrapingError # NoMessage
    /\ MsgNoTitles # NoMessage
    /\ Responded /\ response.message = MsgScrapingError => FetchFailed
    /\ Responded /\ response.message = MsgNoTitles => FetchSucceeded /\ titles = << >>

\* C1 amended: a request with a well-formed URL whose scraping fails (non-200
\* status, any exception of the fetch, or an exception while the 200 response
\* is parsed) is answered 200 with error = true, no results, both counts 0 and
\* a message, and the oracle is never invoked for it; a request whose 200
\* response was parsed but gave no candidate is answered with error = false
\* and another message; neither message nor error flag ever appears on the
\* other kind of outcome.
C1_ScrapingFailureDistinctFromNoTitles ==
    /\ ScrapingFailed => oracle_calls = << >> /\ titles = << >>
    /\ Responded /\ ScrapingFailed =>
           /\ response.status = 200
           /\ response.error = TRUE
           /\ response.results = << >>
           /\ response.total_titles_found = 0
           /\ response.products_identified = 0
           /\ response.message = MsgScrapingError
    /\ Responded /\ PageExtracted /\ titles = << >> =>
           /\ response.status = 200
           /\ response.error = FALSE
           /\ response.message = MsgNoTitles
    /\ MsgScrapingError # MsgNoTitles
    /\ MsgScrapingError # NoMessage
    /\ MsgNoTitles # NoMessage
    /\ Responded /\ response.message = MsgScrapingError => ScrapingFailed
    /\ Responded /\ response.message = MsgNoTitles => PageExtracted /\ titles = << >>
    /\ Responded /\ PageExtracted => response.error = FALSE

\* a 404 was answered
C1_Witness ==
    /\ Responded
    /\ WellFormedRequest
    /\ fetch.kind = "response"
    /\ fetch.status_code = 404
    /\ response.error = TRUE

---------------------------------------------------------------------------
(* C2 *)

\* C2: a request whose body is missing, lacks a url or carries a url value that
\* does not start with http:// or https:// is answered 400 with error = true and
\* no results, without any fetch and without any oracle call.
C2_InvalidRequestIs400 ==
    Responded /\ ~WellFormedRequest =>
        /\ response.status = 400
        /\ response.error = TRUE
        /\ response.results = << >>
        /\ fetch = NoFetch
        /\ oracle_calls = << >>

---------------------------------------------------------------------------
(* C3 *)

\* C3 as stated: every answer with no results after a successful fetch (no
\* candidate at all, or candidates of which none qualified) has error = false,
\* no results and an explanatory message; with candidates, products_identified
\* is 0 and total_titles_found is positive.
C3_EmptyResultHasMessage ==
    Responded /\ FetchSucceeded /\ response.results = << >> =>
        /\ response.error = FALSE
        /\ response.message # NoMessage
        /\ titles # << >> =>
               /\ response.products_identified = 0
               /\ response.total_titles_found > 0

\* C3 amended: every answer with no results after a successful fetch whose
\* page was parsed has error = false and no results; without any candidate it carries the
\* explanatory message and both counts are 0; with candidates of which none
\* qualified it carries no message key, products_identified is 0 and
\* total_titles_found is positive.
C3_EmptyResultOutcomes ==
    Responded /\ PageExtracted /\ response.results = << >> =>
        /\ response.status = 200
        /\ response.error = FALSE
        /\ titles = << >> =>
               /\ response.message = MsgNoTitles
               /\ response.products_identified = 0
               /\ response.total_titles_found = 0
        /\ titles # << >> =>
               /\ response.message = NoMessage
               /\ response.products_identified = 0
               /\ response.total_titles_found > 0

\* the oracle was asked about every candidate and none qualified
C3_Witness ==
    /\ Responded
    /\ PageExtracted
    /\ Len(unique_titles) >= 2
    /\ Len(oracle_calls) = Len(unique_titles)
    /\ error_log = << >>
    /\ response.results = << >>
    /\ response.total_titles_found = Len(unique_titles)

---------------------------------------------------------------------------
(* C4 *)

\* position of the first occurrence of x in q
FirstIndex(q, x) == CHOOSE i \in 1..Len(q) : q[i] = x /\ \A j \in 1..(i - 1) : q[j] # x

\* C4: the deduplicated sequence is no longer than the candidate sequence, holds
\* no string twice, holds exactly the distinct strings of the candidate
\* sequence, and lists them in the order of their first occurrences; equality
\* is exact, so strings that differ in case or in whitespace are all kept.
C4_DedupFirstOccurrences ==
    pc # "idle" /\ FetchSucceeded /\ titles # << >> =>
        /\ Len(unique_titles) <= Len(titles)
        /\ \A i, j \in 1..Len(unique_titles) : i # j => unique_titles[i] # unique_titles[j]
        /\ Range(unique_titles) = Range(titles)
        /\ \A i, j \in 1..Len(unique_titles) :
               i < j => FirstIndex(titles, unique_titles[i]) < FirstIndex(titles, unique_titles[j])

\* "ab", "Ab", "ab" became "ab", "Ab"
C4_Witness ==
    /\ Len(titles) = 3
    /\ titles[1] = titles[3]
    /\ titles[1] # titles[2]
    /\ Lower(titles[1]) = Lower(titles[2])
    /\ unique_titles = << titles[1], titles[2] >>

---------------------------------------------------------------------------
(* C5 *)

\* the number a prob string "NN%" shows
ShownPercent(r) == CHOOSE n \in 0..100 : IntToStr(n) \o << "%" >> = r.prob

Count(q, x) == Cardinality({i \in 1..Len(q) : q[i] = x})

\* after is before, reordered by non-increasing percent, ties in the order of before
StablyRanked(before, after) ==
    /\ Len(after) = Len(before)
    /\ \A x \in Range(before) \cup Range(after) : Count(after, x) = Count(before, x)
    /\ \A i, j \in 1..Len(after) :
           i < j => ShownPercent(after[i]) >= ShownPercent(after[j])
    /\ \A i, j \in 1..Len(after) :
           i < j /\ ShownPercent(after[i]) = ShownPercent(after[j])
               => FirstIndex(before, after[i]) < FirstIndex(before, after[j])

\* C5: when the handler ranks, the results it returns are a permutation of the
\* scored results in non-increasing order of confidence percent, and results
\* of equal percent keep the order in which the candidates were scored.
C5_RankingStableDescending ==
    [][pc = "scoring" /\ pc' = "done" =>
           /\ StablyRanked(results, results')
           /\ response'.results = results']_vars

\* three results came back reordered, two of them tied
C5_Witness ==
    /\ Responded
    /\ Len(response.results) = 3
    /\ ShownPercent(response.results[1]) > ShownPercent(response.results[2])
    /\ ShownPercent(response.results[2]) = ShownPercent(response.results[3])
    /\ response.results[1].text = unique_titles[3]
    /\ response.results[2].text = unique_titles[1]

---------------------------------------------------------------------------
(* C6 *)

\* C6: in every response products_identified is the number of results; in every
\* response produced after scoring total_titles_found is the number of distinct
\* candidates, whatever became of them in the scoring; so products_identified
\* never exceeds total_titles_found.
C6_CountsMatch ==
    Responded =>
        /\ response.products_identified = Len(response.results)
        /\ unique_titles # << >> =>
               response.total_titles_found = Cardinality(Range(titles))
        /\ response.products_identified <= response.total_titles_found

\* three distinct candidates: one too short, one failed, one qualified
C6_Witness ==
    /\ Responded
    /\ Len(unique_titles) = 3
    /\ response.total_titles_found = 3
    /\ response.products_identified = 1
    /\ Len(oracle_calls) = 2
    /\ Len(error_log) = 1

---------------------------------------------------------------------------
(* C7 *)

\* the text without its leading and trailing whitespace has fewer than 2 characters
ShortText(t) == \A i, j \in 1..Len(t) : i < j => t[i] \in Whitespace \/ t[j] \in Whitespace

\* the candidates that are not short, in their order
LongEnough(q) == SelectSeq(q, LAMBDA t : ~ShortText(t))

\* the part of unique_titles the loop has dealt with
Scored == SubSeq(unique_titles, 1, idx - 1)

\* the candidates the oracle has been given so far: the long ones among those
\* dealt with, and the one it is working on
AskedSoFar ==
    IF pc = "oracle" THEN LongEnough(Scored) \o << unique_titles[idx] >> ELSE LongEnough(Scored)

\* C7 as stated: the oracle is never invoked on a candidate whose trimmed text
\* is shorter than 2, no such candidate appears in the results, and every other
\* candidate is given to the oracle exactly once, whole, in the order of the
\* unique sequence.
C7_EveryLongCandidateAsked ==
    /\ \A i \in 1..Len(oracle_calls) : ~ShortText(oracle_calls[i])
    /\ \A i \in 1..Len(results) : ~ShortText(results[i].text)
    /\ Responded /\ unique_titles # << >> => oracle_calls = LongEnough(unique_titles)

\* C7 amended: the oracle is never invoked on a candidate whose trimmed text is
\* shorter than 2 and no such candidate appears in the results; when the
\* classifier is loaded every other candidate is given to the oracle exactly
\* once, whole, in the order of the unique sequence; when it is not loaded no
\* candidate is given to the oracle.
C7_LongCandidatesAskedWhenLoaded ==
    /\ \A i \in 1..Len(oracle_calls) : ~ShortText(oracle_calls[i])
    /\ \A i \in 1..Len(results) : ~ShortText(results[i].text)
    /\ \A i \in 1..Len(response.results) : ~ShortText(response.results[i].text)
    /\ pc \in {"scoring", "oracle"} => oracle_calls = AskedSoFar
    /\ pc = "oracle" => ~ShortText(unique_titles[idx])
    /\ Responded /\ unique_titles # << >> =>
           oracle_calls = IF ner_pipeline = "None" THEN << >> ELSE LongEnough(unique_titles)

\* a short candidate between two others was passed over, the others were asked
C7_Witness ==
    /\ Responded
    /\ ner_pipeline # "None"
    /\ Len(unique_titles) = 3
    /\ ShortText(unique_titles[2])
    /\ oracle_calls = << unique_titles[1], unique_titles[3] >>

---------------------------------------------------------------------------
(* C8 *)

IsPrefix(p, q) == Len(p) <= Len(q) /\ SubSeq(q, 1, Len(p)) = p

\* C8: a failure of the oracle for one candidate does not abort the scoring:
\* the candidate gets no result, the results produced before are kept, the
\* loop goes on, every later candidate is still given to the oracle, and the
\* request is not answered 500 because of it.
C8_OracleFailureIsLocal ==
    /\ [](/\ \A i \in 1..Len(error_log) :
                 \A j \in 1..Len(results) : results[j].text # error_log[i]
          /\ pc \in {"scoring", "oracle"} => oracle_calls = AskedSoFar
          /\ Responded /\ error_log # << >> =>
                 /\ oracle_calls = LongEnough(unique_titles)
                 /\ response.status = 200
                 /\ response.error = FALSE
                 /\ response.products_identified = Len(results))
    /\ [][error_log' # error_log =>
              /\ pc' = "scoring"
              /\ idx' = idx + 1
              /\ results' = results
              /\ response' = response]_vars
    /\ [][(pc \in {"scoring", "oracle"} /\ pc' \in {"scoring", "oracle"})
              => IsPrefix(results, results')]_vars

\* the oracle failed on the second of three candidates; the first and the third
\* have their results
C8_Witness ==
    /\ Responded
    /\ Len(unique_titles) = 3
    /\ error_log = << unique_titles[2] >>
    /\ oracle_calls = unique_titles
    /\ response.status = 200
    /\ {response.results[i].text : i \in 1..Len(response.results)}
           = {unique_titles[1], unique_titles[3]}

---------------------------------------------------------------------------
(* C9 *)

\* the finding carries the target label in one of its two label fields
Qualifies(f) == f.entity_group = "PRODUCT" \/ f.entity = "PRODUCT"

\* floor(confidence * 100) of the exact product, a missing score counting as 0
FloorPercentOf ==
    [f \in Findings |->
        IF f.score.kind = "float" THEN IntegerPart(Times100(f.score), f.score.k) ELSE 0]

FloorPercent(f) == FloorPercentOf[f]

\* the step in which the oracle's answer for the candidate at idx was taken in
\* without an exception
OracleAnswers_Step == pc = "oracle" /\ pc' = "scoring" /\ error_log' = error_log

\* C9: the scorer emits at most one result per unique candidate; it emits one
\* exactly when some finding of the oracle's answer carries the target label
\* in the grouped-label or the plain-label field, and the percent of that
\* result is floor(confidence * 100) of the first such finding in the answer,
\* a number in 0..100.
C9_FirstQualifyingFindingDecides ==
    /\ [](/\ Len(results) <= Len(unique_titles)
          /\ \A i, j \in 1..Len(results) : i # j => results[i].text # results[j].text)
    /\ [][OracleAnswers_Step =>
              LET hits == {i \in 1..Len(entities') : Qualifies(entities'[i])}
              IN  IF hits = {}
                  THEN results' = results
                  ELSE LET first == CHOOSE i \in hits : \A j \in hits : i <= j
                           pct   == FloorPercent(entities'[first])
                       IN  /\ pct \in 0..100
                           /\ results' = Append(results,
                                  [text |-> unique_titles[idx],
                                   prob |-> IntToStr(pct) \o << "%" >>])]_vars

---------------------------------------------------------------------------
(* C10 *)

\* C10: when the classifier failed to load, the oracle is never invoked, a
\* request whose fetch yields candidates is answered 200 with error = false, no
\* results, products_identified = 0 and total_titles_found = the number of
\* distinct candidates, and /health reports model_status "not_loaded".
C10_NotLoadedDegrades ==
    ner_pipeline = "None" =>
        /\ oracle_calls = << >>
        /\ error_log = << >>
        /\ Responded /\ FetchSucceeded /\ titles # << >> =>
               /\ response.status = 200
               /\ response.error = FALSE
               /\ response.results = << >>
               /\ response.products_identified = 0
               /\ response.total_titles_found = Cardinality(Range(titles))
        /\ health # NoHealth => health.status = "ok" /\ health.model_status = "not_loaded"

\* without a classifier, a page with three candidates, two distinct, was answered
\* and /health was asked
C10_Witness ==
    /\ ner_pipeline = "None"
    /\ Responded
    /\ Len(titles) = 3
    /\ response.status = 200
    /\ response.total_titles_found = 2
    /\ health.model_status = "not_loaded"

====
